---- MODULE Spec2Model ----
(***************************************************************************)
(* Jig Runner MCP adapter: the tool layer of main.py (argument validation  *)
(* and request shaping of the station / workflow tools) on top of the      *)
(* transport client of api_client.py (lazy credential check, one HTTP      *)
(* request per call).                                                      *)
(*                                                                         *)
(* Python values are tagged records: None, str, bool, int, dict (a         *)
(* function from key strings to values) and list (a sequence of values).   *)
(* An exception message is the sequence of the fragments of its text (the  *)
(* literal pieces and the values formatted between them, a literal being   *)
(* cut around a word a property refers to), so that "the message names X"  *)
(* is "X is a fragment of the message".                                    *)
(***************************************************************************)
EXTENDS Integers, Sequences, FiniteSets, TLC

\* ------------------------------------------------------------ bounds
MaxCalls == 2       \* tool invocations that may be in flight together
MaxStations == 3    \* longest action.stations list that is enumerated

\* ------------------------------------------------------------ Python values
None == [t |-> "none"]
Str(s) == [t |-> "str", s |-> s]
Bool(b) == [t |-> "bool", b |-> b]
Num(n) == [t |-> "int", n |-> n]
Dict(f) == [t |-> "dict", d |-> f]
List(q) == [t |-> "list", l |-> q]

IsDict(v) == v.t = "dict"
IsList(v) == v.t = "list"
HasKey(v, k) == k \in DOMAIN v.d
Range(q) == {q[i] : i \in 1..Len(q)}

\* Python truth value of an object ("if slug:")
Truthy(v) ==
  CASE v.t = "none" -> FALSE
    [] v.t = "str"  -> v.s # ""
    [] v.t = "bool" -> v.b
    [] v.t = "int"  -> v.n # 0
    [] v.t = "dict" -> DOMAIN v.d # {}
    [] v.t = "list" -> Len(v.l) > 0

\* "x in lst" for a list of str literals: equality with one of its items
InList(v, lst) == \E i \in 1..Len(lst) : v = Str(lst[i])

\* sep.join(items), as the sequence of its fragments
RECURSIVE Join(_, _)
Join(items, sep) ==
  IF Len(items) = 0 THEN <<>>
  ELSE IF Len(items) = 1 THEN <<items[1]>>
  ELSE <<items[1], sep>> \o Join(Tail(items), sep)

\* str(i) of a non-negative int, as formatted into an f-string
Digits == <<"0", "1", "2", "3", "4", "5", "6", "7", "8", "9">>
RECURSIVE IntStr(_)
IntStr(n) ==
  IF n < 10 THEN Digits[n + 1] ELSE IntStr(n \div 10) \o Digits[(n % 10) + 1]

\* ------------------------------------------------------------ exceptions
\* exc: the Python class; site: which raise statement family produced it
\* ("tool" = a tool body of main.py, "client" = _get_client,
\*  "http" = httpx under client.request)
NoExc == [exc |-> "none"]
ValueError(site, msg) == [exc |-> "ValueError", site |-> site, msg |-> msg]

\* ------------------------------------------------------------ main.py: stations
required_action_fields == <<"type", "actor", "prompt">>
station_valid_types == <<"gather", "process", "execute">>
\* variant: an actor list that accepts only agents
valid_actors_agent_only == <<"agent">>

valid_actors == <<"agent", "human">>

\* variant: only the first missing field is collected
missing_fields_first(action) ==
  LET all == SelectSeq(required_action_fields, LAMBDA f : ~HasKey(action, f))
  IN IF all = <<>> THEN <<>> ELSE <<all[1]>>

\* [f for f in required_action_fields if f not in action]
missing_fields(action) ==
  SelectSeq(required_action_fields, LAMBDA f : ~HasKey(action, f))

\* create_station, the checks before the request is built
create_station_validate(action) ==
  IF ~IsDict(action) THEN ValueError("tool", <<"action must be a dictionary">>)
  ELSE IF missing_fields(action) # <<>>
    THEN ValueError("tool", <<"action must have fields: ">>
                            \o Join(missing_fields(action), ", "))
  ELSE IF ~InList(action.d["type"], station_valid_types)
    THEN ValueError("tool", <<"action.type must be one of: ">>
                            \o Join(station_valid_types, ", "))
  ELSE IF ~InList(action.d["actor"], valid_actors)
    THEN ValueError("tool", <<"action.actor must be one of: ">>
                            \o Join(valid_actors, ", "))
  ELSE NoExc

\* variant: the actor is looked at only when no type was supplied (elif)
update_station_validate_elif(action) ==
  IF action = None THEN NoExc
  ELSE IF ~IsDict(action) THEN ValueError("tool", <<"action must be a dictionary">>)
  ELSE IF HasKey(action, "type")
    THEN IF ~InList(action.d["type"], station_valid_types)
         THEN ValueError("tool", <<"action.type must be one of: ">>
                                 \o Join(station_valid_types, ", "))
         ELSE NoExc
  ELSE IF HasKey(action, "actor") /\ ~InList(action.d["actor"], valid_actors)
    THEN ValueError("tool", <<"action.actor must be one of: ">>
                            \o Join(valid_actors, ", "))
  ELSE NoExc

\* update_station, "Validate action if provided"
update_station_validate(action) ==
  IF action = None THEN NoExc
  ELSE IF ~IsDict(action) THEN ValueError("tool", <<"action must be a dictionary">>)
  ELSE IF HasKey(action, "type") /\ ~InList(action.d["type"], station_valid_types)
    THEN ValueError("tool", <<"action.type must be one of: ">>
                            \o Join(station_valid_types, ", "))
  ELSE IF HasKey(action, "actor") /\ ~InList(action.d["actor"], valid_actors)
    THEN ValueError("tool", <<"action.actor must be one of: ">>
                            \o Join(valid_actors, ", "))
  ELSE NoExc

\* ------------------------------------------------------------ main.py: workflows
valid_triggers == <<"manual", "schedule", "event">>
workflow_valid_types == <<"linear", "parallel", "conditional", "hybrid">>

\* variant: the entries are counted from one
RECURSIVE stations_loop_one_based(_, _)
stations_loop_one_based(stations, i) ==
  IF i >= Len(stations) THEN NoExc
  ELSE LET station == stations[i + 1] IN
    IF ~IsDict(station)
      THEN ValueError("tool", <<"action.stations[", IntStr(i + 1),
                                "] must be a dictionary">>)
    ELSE IF ~HasKey(station, "name") \/ ~HasKey(station, "id")
            \/ ~HasKey(station, "condition")
      THEN ValueError("tool", <<"action.stations[", IntStr(i + 1),
                                "] must have 'name', 'id', and 'condition' fields">>)
    ELSE stations_loop_one_based(stations, i + 1)

\* the for loop over enumerate(stations): the error of the first entry (from
\* zero-based index i on) that is not a dict or lacks name / id / condition
RECURSIVE stations_loop(_, _)
stations_loop(stations, i) ==
  IF i >= Len(stations) THEN NoExc
  ELSE LET station == stations[i + 1] IN
    IF ~IsDict(station)
      THEN ValueError("tool", <<"action.stations[", IntStr(i), "] must be a dictionary">>)
    ELSE IF ~HasKey(station, "name") \/ ~HasKey(station, "id")
            \/ ~HasKey(station, "condition")
      THEN ValueError("tool", <<"action.stations[", IntStr(i),
                                "] must have 'name', 'id', and 'condition' fields">>)
    ELSE stations_loop(stations, i + 1)

\* variant: config.type is not checked against its enumeration
create_config_validate_no_type(config) ==
  IF ~IsDict(config) THEN ValueError("tool", <<"action.config must be a dictionary">>)
  ELSE IF ~HasKey(config, "trigger") \/ ~HasKey(config, "type")
    THEN ValueError("tool", <<"action.config must have 'trigger' and 'type' fields">>)
  ELSE IF ~InList(config.d["trigger"], valid_triggers)
    THEN ValueError("tool", <<"action.config.trigger must be one of: ">>
                            \o Join(valid_triggers, ", "))
  ELSE NoExc

\* create_workflow, "Validate config"
create_config_validate(config) ==
  IF ~IsDict(config) THEN ValueError("tool", <<"action.config must be a dictionary">>)
  ELSE IF ~HasKey(config, "trigger") \/ ~HasKey(config, "type")
    THEN ValueError("tool", <<"action.config must have 'trigger' and 'type' fields">>)
  ELSE IF ~InList(config.d["trigger"], valid_triggers)
    THEN ValueError("tool", <<"action.config.trigger must be one of: ">>
                            \o Join(valid_triggers, ", "))
  ELSE IF ~InList(config.d["type"], workflow_valid_types)
    THEN ValueError("tool", <<"action.config.type must be one of: ">>
                            \o Join(workflow_valid_types, ", "))
  ELSE NoExc

\* variant: any list will do, an empty one too
create_stations_validate_any_list(stations) ==
  IF ~IsList(stations)
    THEN ValueError("tool", <<"action.stations must be a ", "non-empty", " array">>)
  ELSE stations_loop(stations.l, 0)

\* create_workflow, "Validate stations array"
create_stations_validate(stations) ==
  IF ~IsList(stations) \/ Len(stations.l) = 0
    THEN ValueError("tool", <<"action.stations must be a ", "non-empty", " array">>)
  ELSE stations_loop(stations.l, 0)

\* create_workflow, the checks before the request is built
create_workflow_validate(action) ==
  IF ~IsDict(action) THEN ValueError("tool", <<"action must be a dictionary">>)
  ELSE IF ~HasKey(action, "config") \/ ~HasKey(action, "stations")
    THEN ValueError("tool", <<"action must have 'config' and 'stations' fields">>)
  ELSE IF create_config_validate(action.d["config"]) # NoExc
    THEN create_config_validate(action.d["config"])
  ELSE create_stations_validate(action.d["stations"])

\* update_workflow, "Validate config if present"
update_config_validate(config) ==
  IF ~IsDict(config) THEN ValueError("tool", <<"action.config must be a dictionary">>)
  ELSE IF HasKey(config, "trigger") /\ ~InList(config.d["trigger"], valid_triggers)
    THEN ValueError("tool", <<"action.config.trigger must be one of: ">>
                            \o Join(valid_triggers, ", "))
  ELSE IF HasKey(config, "type") /\ ~InList(config.d["type"], workflow_valid_types)
    THEN ValueError("tool", <<"action.config.type must be one of: ">>
                            \o Join(workflow_valid_types, ", "))
  ELSE NoExc

\* update_workflow, "Validate stations if present"
update_stations_validate(stations) ==
  IF ~IsList(stations)
    THEN ValueError("tool", <<"action.stations must be an array">>)
  ELSE stations_loop(stations.l, 0)

\* update_workflow, "Validate action if provided"
update_workflow_validate(action) ==
  IF action = None THEN NoExc
  ELSE IF ~IsDict(action) THEN ValueError("tool", <<"action must be a dictionary">>)
  ELSE IF HasKey(action, "config") /\ update_config_validate(action.d["config"]) # NoExc
    THEN update_config_validate(action.d["config"])
  ELSE IF HasKey(action, "stations")
    THEN update_stations_validate(action.d["stations"])
  ELSE NoExc

\* ------------------------------------------------------------ tool bodies
\* What a tool body does up to its await: it raises (exc), or it reaches
\* "return await client.request(method, url, params=..., json_data=...)" (call).
NoCall == [method |-> "none"]
Raise(e) == [exc |-> e, call |-> NoCall]
Call(method, url, params, json_data) ==
  [exc |-> NoExc,
   call |-> [method |-> method, url |-> url, params |-> params, json |-> json_data]]

\* the keys of ks whose argument passes the test, with their arguments
Pick(args, ks) == [k \in ks |-> args[k]]

get_station(args) == Call("GET", "/api/stations/" \o args["id"].s, None, None)

delete_station(args) == Call("DELETE", "/api/stations/" \o args["id"].s, None, None)

\* variant: the request is issued without waiting for the checks
create_station_unchecked(args) ==
  Call("POST", "/api/stations", None,
       Dict(Pick(args, {"version", "name", "intent", "action", "is_active"})))

\* variant: is_active enters the body like the optional fields, when truthy
create_station_truthy_active(args) ==
  LET e == create_station_validate(args["action"])
      data == Pick(args, {"version", "name", "intent", "action"}
                         \cup {k \in {"is_active", "slug", "context", "output"} :
                                 Truthy(args[k])})
  IN IF e # NoExc THEN Raise(e)
     ELSE Call("POST", "/api/stations", None, Dict(data))

create_station(args) ==
  LET e == create_station_validate(args["action"])
      data == Pick(args, {"version", "name", "intent", "action", "is_active"}
                         \cup {k \in {"slug", "context", "output"} : Truthy(args[k])})
  IN IF e # NoExc THEN Raise(e)
     ELSE Call("POST", "/api/stations", None, Dict(data))

\* variant: only fields with a truthy value enter the patch
update_station_truthy(args) ==
  LET e == update_station_validate(args["action"])
      data == Pick(args, {k \in {"name", "intent", "slug", "context", "output",
                                 "is_active", "archived", "action"} : Truthy(args[k])})
  IN IF e # NoExc THEN Raise(e)
     ELSE Call("PUT", "/api/stations/" \o args["id"].s, None, Dict(data))

update_station(args) ==
  LET e == update_station_validate(args["action"])
      data == Pick(args, {k \in {"name", "intent", "slug", "context", "output",
                                 "is_active", "archived", "action"} : args[k] # None})
  IN IF e # NoExc THEN Raise(e)
     ELSE Call("PUT", "/api/stations/" \o args["id"].s, None, Dict(data))

\* variant: the request is issued without waiting for the checks
create_workflow_unchecked(args) ==
  Call("POST", "/api/workflows", None,
       Dict(Pick(args, {"version", "name", "intent", "action"})))

create_workflow(args) ==
  LET e == create_workflow_validate(args["action"])
      data == Pick(args, {"version", "name", "intent", "action"}
                         \cup {k \in {"slug", "context", "output"} : Truthy(args[k])})
  IN IF e # NoExc THEN Raise(e)
     ELSE Call("POST", "/api/workflows", None, Dict(data))

update_workflow(args) ==
  LET e == update_workflow_validate(args["action"])
      data == Pick(args, {k \in {"name", "intent", "slug", "context", "output",
                                 "action"} : args[k] # None})
  IN IF e # NoExc THEN Raise(e)
     ELSE Call("PUT", "/api/workflows/" \o args["id"].s, None, Dict(data))

\* variant: is_active is tested for truth like the other filters
list_stations_truthy(args) ==
  Call("GET", "/api/stations",
       Dict(Pick(args, {"limit", "offset", "include_archived"}
                       \cup {k \in {"is_active", "action_type", "search"} :
                               Truthy(args[k])})),
       None)

list_stations(args) ==
  Call("GET", "/api/stations",
       Dict(Pick(args, {"limit", "offset", "include_archived"}
                       \cup {k \in {"is_active"} : args[k] # None}
                       \cup {k \in {"action_type", "search"} : Truthy(args[k])})),
       None)

discover_stations(args) ==
  Call("GET", "/api/stations/discover",
       Dict(Pick(args, {k \in {"search"} : Truthy(args[k])})), None)

list_workflows(args) ==
  Call("GET", "/api/workflows",
       Dict(Pick(args, {"limit", "offset"} \cup {k \in {"search"} : Truthy(args[k])})),
       None)

list_runs(args) ==
  Call("GET", "/api/runs",
       Dict(Pick(args, {"limit", "offset"} \cup {k \in {"status"} : Truthy(args[k])})),
       None)

get_run_logs(args) ==
  Call("GET", "/api/runs/" \o args["run_id"].s \o "/logs",
       Dict(Pick(args, {"limit"} \cup {k \in {"level"} : Truthy(args[k])})), None)

list_context_blocks(args) ==
  Call("GET", "/api/context-blocks",
       Dict(Pick(args, {"limit", "offset"} \cup {k \in {"run_id"} : Truthy(args[k])})),
       None)

list_connections(args) ==
  Call("GET", "/api/connections",
       Dict(Pick(args, {"limit", "offset"}
                       \cup {k \in {"type", "search"} : Truthy(args[k])}
                       \cup {k \in {"is_active"} : args[k] # None})),
       None)

\* the @mcp.tool registry: the body run for a tool name
tool_body(tool, args) ==
  CASE tool = "get_station"     -> get_station(args)
    [] tool = "delete_station"  -> delete_station(args)
    [] tool = "create_station"  -> create_station(args)
    [] tool = "update_station"  -> update_station(args)
    [] tool = "create_workflow" -> create_workflow(args)
    [] tool = "update_workflow" -> update_workflow(args)
    [] tool = "list_stations"   -> list_stations(args)
    [] tool = "discover_stations" -> discover_stations(args)
    [] tool = "list_workflows"  -> list_workflows(args)
    [] tool = "list_runs"       -> list_runs(args)
    [] tool = "get_run_logs"    -> get_run_logs(args)
    [] tool = "list_context_blocks" -> list_context_blocks(args)
    [] tool = "list_connections" -> list_connections(args)

\* the parameter defaults of each tool's signature
defaults(tool) ==
  CASE tool \in {"get_station", "delete_station"} -> [id |-> Str("s1")]
    [] tool = "create_station" ->
         [name |-> Str("n"), intent |-> Str("i"), action |-> None, context |-> None,
          output |-> None, slug |-> None, version |-> Str("1.0"),
          is_active |-> Bool(TRUE)]
    [] tool = "update_station" ->
         [id |-> Str("s1"), name |-> None, intent |-> None, action |-> None,
          context |-> None, output |-> None, slug |-> None, is_active |-> None,
          archived |-> None]
    [] tool = "create_workflow" ->
         [name |-> Str("n"), intent |-> Str("i"), action |-> None, slug |-> None,
          version |-> Str("1.0"), context |-> None, output |-> None]
    [] tool = "update_workflow" ->
         [id |-> Str("w1"), name |-> None, intent |-> None, action |-> None,
          slug |-> None, context |-> None, output |-> None]
    [] tool = "list_stations" ->
         [limit |-> Num(50), offset |-> Num(0), is_active |-> None,
          include_archived |-> Bool(FALSE), action_type |-> None, search |-> None]
    [] tool = "discover_stations" -> [search |-> None]
    [] tool = "list_workflows" ->
         [limit |-> Num(50), offset |-> Num(0), search |-> None]
    [] tool = "list_runs" ->
         [limit |-> Num(50), offset |-> Num(0), status |-> None]
    [] tool = "get_run_logs" ->
         [run_id |-> Str("r1"), level |-> None, limit |-> Num(100)]
    [] tool = "list_context_blocks" ->
         [limit |-> Num(50), offset |-> Num(0), run_id |-> None]
    [] tool = "list_connections" ->
         [limit |-> Num(50), offset |-> Num(0), type |-> None, is_active |-> None,
          search |-> None]

\* a tool invocation: the supplied arguments over the defaults
Invocation(tool, supplied) ==
  [tool |-> tool,
   args |-> [k \in DOMAIN defaults(tool) |->
               IF k \in DOMAIN supplied THEN supplied[k] ELSE defaults(tool)[k]]]

\* ------------------------------------------------------------ state
VARIABLES
  api_url,            \* JigRunnerClient.api_url
  supabase_url,       \* JigRunnerClient.supabase_url
  service_role_key,   \* JigRunnerClient.service_role_key
  _client,            \* JigRunnerClient._client: NoClient or the index in clients
  clients,            \* every httpx.AsyncClient constructed so far
  calls,              \* the tool invocations in progress, by slot
  succeeded           \* history: some request of this object got a 2xx response

vars == <<api_url, supabase_url, service_role_key, _client, clients, calls, succeeded>>

NoClient == 0
Slots == 1..MaxCalls
Idle == [pc |-> "idle"]
Pending == [exc |-> "pending"]
Returned == [exc |-> "none", value |-> "response.json()"]

\* ------------------------------------------------------------ api_client.py
\* variant: the configuration is refused only when both credentials are empty
_get_client_both_empty ==
  IF _client = NoClient
  THEN IF supabase_url = "" /\ service_role_key = ""
       THEN [exc |-> ValueError("client",
                       <<"Missing required environment variables:\n- ",
                         "JIG_RUNNER_SUPABASE_URL", "\n- ",
                         "JIG_RUNNER_SERVICE_ROLE_KEY",
                         "\nMake sure they are configured in Smithery">>),
             client |-> _client, clients |-> clients]
       ELSE [exc |-> NoExc,
             client |-> Len(clients) + 1,
             clients |-> Append(clients,
                           [base_url |-> api_url,
                            content_type |-> "application/json",
                            authorization |-> "Bearer " \o service_role_key,
                            timeout |-> 30,
                            closed |-> FALSE])]
  ELSE [exc |-> NoExc, client |-> _client, clients |-> clients]

\* variant: a client is constructed for every request
_get_client_uncached ==
  IF supabase_url = "" \/ service_role_key = ""
  THEN [exc |-> ValueError("client",
                  <<"Missing required environment variables:\n- ",
                    "JIG_RUNNER_SUPABASE_URL", "\n- ",
                    "JIG_RUNNER_SERVICE_ROLE_KEY",
                    "\nMake sure they are configured in Smithery">>),
        client |-> _client, clients |-> clients]
  ELSE [exc |-> NoExc,
        client |-> Len(clients) + 1,
        clients |-> Append(clients,
                      [base_url |-> api_url,
                       content_type |-> "application/json",
                       authorization |-> "Bearer " \o service_role_key,
                       timeout |-> 30,
                       closed |-> FALSE])]

\* variant: the credentials are checked on every call, client or no client
_get_client_always_checks ==
  IF supabase_url = "" \/ service_role_key = ""
  THEN [exc |-> ValueError("client",
                  <<"Missing required environment variables:\n- ",
                    "JIG_RUNNER_SUPABASE_URL", "\n- ",
                    "JIG_RUNNER_SERVICE_ROLE_KEY",
                    "\nMake sure they are configured in Smithery">>),
        client |-> _client, clients |-> clients]
  ELSE IF _client = NoClient
  THEN [exc |-> NoExc,
        client |-> Len(clients) + 1,
        clients |-> Append(clients,
                      [base_url |-> api_url,
                       content_type |-> "application/json",
                       authorization |-> "Bearer " \o service_role_key,
                       timeout |-> 30,
                       closed |-> FALSE])]
  ELSE [exc |-> NoExc, client |-> _client, clients |-> clients]

\* _get_client: the exception raised, or the client returned, with the
\* object's _client attribute and the constructed clients afterwards
_get_client ==
  IF _client = NoClient
  THEN IF supabase_url = "" \/ service_role_key = ""
       THEN [exc |-> ValueError("client",
                       <<"Missing required environment variables:\n- ",
                         "JIG_RUNNER_SUPABASE_URL", "\n- ",
                         "JIG_RUNNER_SERVICE_ROLE_KEY",
                         "\nMake sure they are configured in Smithery">>),
             client |-> _client, clients |-> clients]
       ELSE [exc |-> NoExc,
             client |-> Len(clients) + 1,
             clients |-> Append(clients,
                           [base_url |-> api_url,
                            content_type |-> "application/json",
                            authorization |-> "Bearer " \o service_role_key,
                            timeout |-> 30,
                            closed |-> FALSE])]
  ELSE [exc |-> NoExc, client |-> _client, clients |-> clients]

\* request, up to its await: _get_client raises, or the HTTP request goes out
\* on the client it returned and the coroutine waits for the response; a client
\* that was closed refuses to send (httpx raises RuntimeError before any I/O).
\* created: whether this call of _get_client constructed the HTTP client.
request(i, inv, call) ==
  LET g == _get_client IN
  /\ _client' = g.client
  /\ clients' = g.clients
  /\ calls' = [calls EXCEPT ![i] =
       IF g.exc # NoExc
       THEN [pc |-> "done", tool |-> inv.tool, args |-> inv.args, requests |-> 1,
             sent |-> 0, wire |-> NoCall, created |-> FALSE, result |-> g.exc]
       ELSE IF g.clients[g.client].closed
       THEN [pc |-> "done", tool |-> inv.tool, args |-> inv.args, requests |-> 1,
             sent |-> 0, wire |-> NoCall, created |-> FALSE,
             result |-> [exc |-> "RuntimeError", site |-> "http"]]
       ELSE [pc |-> "awaiting", tool |-> inv.tool, args |-> inv.args, requests |-> 1,
             sent |-> 1,
             wire |-> [client |-> g.client, method |-> call.method, url |-> call.url,
                       params |-> call.params, json |-> call.json],
             created |-> (g.client # _client),
             result |-> Pending]]

\* the outcomes of one HTTP request: a response with a status code, or a
\* transport failure
Outcomes ==
  {[kind |-> "response", status |-> 200], [kind |-> "response", status |-> 500],
   [kind |-> "error", exc |-> "ReadTimeout"], [kind |-> "error", exc |-> "ConnectError"]}

\* response.raise_for_status(): 2xx passes
is_success(status) == 200 <= status /\ status <= 299

\* variant: a failure drops the HTTP client, to be rebuilt by the next request
Respond_reset(i, o) ==
  /\ calls[i].pc = "awaiting"
  /\ calls' = [calls EXCEPT ![i] = [@ EXCEPT
       !.pc = "done",
       !.result =
         IF o.kind = "error" THEN [exc |-> o.exc, site |-> "http"]
         ELSE IF ~is_success(o.status)
           THEN [exc |-> "HTTPStatusError", site |-> "http", status |-> o.status]
         ELSE Returned]]
  /\ _client' = IF o.kind = "error" \/ ~is_success(o.status) THEN NoClient ELSE _client
  /\ succeeded' = (succeeded \/ (o.kind = "response" /\ is_success(o.status)))
  /\ UNCHANGED <<api_url, supabase_url, service_role_key, clients>>

\* variant: a failed attempt is repeated once before the failure propagates
Respond_retry(i, o) ==
  /\ calls[i].pc = "awaiting"
  /\ calls' = [calls EXCEPT ![i] =
       IF (o.kind = "error" \/ ~is_success(o.status)) /\ calls[i].sent < 2
       THEN [@ EXCEPT !.sent = @ + 1]
       ELSE [@ EXCEPT
               !.pc = "done",
               !.result =
                 IF o.kind = "error" THEN [exc |-> o.exc, site |-> "http"]
                 ELSE IF ~is_success(o.status)
                   THEN [exc |-> "HTTPStatusError", site |-> "http",
                         status |-> o.status]
                 ELSE Returned]]
  /\ succeeded' = (succeeded \/ (o.kind = "response" /\ is_success(o.status)))
  /\ UNCHANGED <<api_url, supabase_url, service_role_key, _client, clients>>

\* request, from its await on: the transport failure propagates, or
\* raise_for_status raises on a non-2xx response, or response.json() is returned
Respond(i, o) ==
  /\ calls[i].pc = "awaiting"
  /\ calls' = [calls EXCEPT ![i] = [@ EXCEPT
       !.pc = "done",
       !.result =
         IF o.kind = "error" THEN [exc |-> o.exc, site |-> "http"]
         ELSE IF ~is_success(o.status)
           THEN [exc |-> "HTTPStatusError", site |-> "http", status |-> o.status]
         ELSE Returned]]
  /\ succeeded' = (succeeded \/ (o.kind = "response" /\ is_success(o.status)))
  /\ UNCHANGED <<api_url, supabase_url, service_role_key, _client, clients>>

\* ------------------------------------------------------------ main.py
\* a tool is invoked: its body runs up to the first await
Invoke(i, inv) ==
  /\ calls[i] = Idle
  /\ LET b == tool_body(inv.tool, inv.args) IN
       IF b.call = NoCall
       THEN /\ calls' = [calls EXCEPT ![i] =
                 [pc |-> "done", tool |-> inv.tool, args |-> inv.args, requests |-> 0,
                  sent |-> 0, wire |-> NoCall, created |-> FALSE, result |-> b.exc]]
            /\ UNCHANGED <<_client, clients>>
       ELSE request(i, inv, b.call)
  /\ UNCHANGED <<api_url, supabase_url, service_role_key, succeeded>>

\* the result or the exception reaches the caller and the invocation is over
Return(i) ==
  /\ calls[i].pc = "done"
  /\ calls' = [calls EXCEPT ![i] = Idle]
  /\ UNCHANGED <<api_url, supabase_url, service_role_key, _client, clients, succeeded>>

\* variant: close() forgets the client it closed
Close_reset(i) ==
  /\ calls[i] = Idle
  /\ clients' = IF _client # NoClient
                THEN [clients EXCEPT ![_client].closed = TRUE]
                ELSE clients
  /\ _client' = NoClient
  /\ calls' = [calls EXCEPT ![i] =
       [pc |-> "done", tool |-> "close", args |-> <<>>, requests |-> 0, sent |-> 0,
        wire |-> NoCall, created |-> FALSE, result |-> [exc |-> "none", value |-> "None"]]]
  /\ UNCHANGED <<api_url, supabase_url, service_role_key, succeeded>>

\* close(): "if self._client: await self._client.aclose()"; aclose marks the
\* client closed at once; _client is left as it is and close() returns None
Close(i) ==
  /\ calls[i] = Idle
  /\ clients' = IF _client # NoClient
                THEN [clients EXCEPT ![_client].closed = TRUE]
                ELSE clients
  /\ calls' = [calls EXCEPT ![i] =
       [pc |-> "done", tool |-> "close", args |-> <<>>, requests |-> 0, sent |-> 0,
        wire |-> NoCall, created |-> FALSE, result |-> [exc |-> "none", value |-> "None"]]]
  /\ UNCHANGED <<api_url, supabase_url, service_role_key, _client, succeeded>>

\* the owner of the object assigns its credential attributes (the settings
\* arrive, or are withdrawn, after construction)
SetCredentials(url, key) ==
  /\ <<url, key>> # <<supabase_url, service_role_key>>
  /\ supabase_url' = url
  /\ service_role_key' = key
  /\ UNCHANGED <<api_url, _client, clients, calls, succeeded>>

\* module load: client = JigRunnerClient(API_URL, SUPABASE_URL, SERVICE_ROLE_KEY),
\* each credential read from the environment with "" as its default
Init ==
  /\ api_url = "https://jig-runner.vercel.app"
  /\ supabase_url \in {"", "https://p.supabase.co"}
  /\ service_role_key \in {"", "secret"}
  /\ _client = NoClient
  /\ clients = <<>>
  /\ calls = [i \in Slots |-> Idle]
  /\ succeeded = FALSE

\* ------------------------------------------------------------ inputs
\* the dicts whose keys are any subset of keys, key k holding a value of vals[k]
DictsOver(keys, vals) ==
  UNION {{Dict(f) : f \in {g \in [K -> UNION {vals[k] : k \in keys}] :
                             \A k \in K : g[k] \in vals[k]}} : K \in SUBSET keys}

\* station actions: not a dict, or any subset of type / actor / prompt, with
\* values in and out of the enumerations (a case variant, a non-string)
StationActions ==
  {Str("process"), List(<<>>)}
  \cup DictsOver({"type", "actor", "prompt"},
         [type |-> {Str("gather"), Str("process"), Str("execute"), Str("Gather"),
                    Str("bogus"), None},
          actor |-> {Str("agent"), Str("human"), Str("Agent")},
          prompt |-> {Str("x")}])

\* workflow configs: not a dict, or any subset of trigger / type
Configs ==
  {Str("manual")}
  \cup DictsOver({"trigger", "type"},
         [trigger |-> {Str("manual"), Str("schedule"), Str("event"), Str("Manual")},
          type |-> {Str("linear"), Str("parallel"), Str("conditional"), Str("hybrid"),
                    Str("bogus")}])

\* station entries of a workflow: not a dict, complete, or lacking keys
GoodEntry == Dict([name |-> Str("a"), id |-> Num(1), condition |-> None])
Entries ==
  {Str("a"), GoodEntry, Dict(<<>>),
   Dict([name |-> Str("a"), id |-> Num(1)]),
   Dict([name |-> Str("a"), condition |-> None]),
   Dict([id |-> Num(1), condition |-> None])}

StationLists ==
  {Str("a")} \cup {List(q) : q \in UNION {[1..n -> Entries] : n \in 0..MaxStations}}

\* representative values of one field, against which the other is varied in full
SomeConfigs ==
  {Str("manual"), Dict(<<>>),
   Dict([trigger |-> Str("manual"), type |-> Str("linear")]),
   Dict([trigger |-> Str("Manual"), type |-> Str("linear")])}
SomeStationLists ==
  {Str("a"), List(<<>>), List(<<GoodEntry>>), List(<<Dict(<<>>)>>)}

\* workflow actions: not a dict, or any subset of config / stations
WorkflowActions ==
  {Str("linear")}
  \cup {Dict(<<>>)}
  \cup {Dict([config |-> c]) : c \in Configs}
  \cup {Dict([stations |-> st]) : st \in StationLists}
  \cup {Dict([config |-> c, stations |-> st]) : c \in Configs, st \in SomeStationLists}
  \cup {Dict([config |-> c, stations |-> st]) : c \in SomeConfigs, st \in StationLists}

\* other fields supplied along with the action of an update
OtherFields == [name |-> Str("n2"), slug |-> Str("")]

\* the optional filters of the read tools, and the values a caller passes
list_tools ==
  {"list_stations", "discover_stations", "list_workflows", "list_runs",
   "get_run_logs", "list_context_blocks", "list_connections"}
filters(tool) ==
  CASE tool = "list_stations"       -> {"is_active", "action_type", "search"}
    [] tool = "discover_stations"   -> {"search"}
    [] tool = "list_workflows"      -> {"search"}
    [] tool = "list_runs"           -> {"status"}
    [] tool = "get_run_logs"        -> {"level"}
    [] tool = "list_context_blocks" -> {"run_id"}
    [] tool = "list_connections"    -> {"type", "is_active", "search"}
FilterValues(k) ==
  IF k = "is_active" THEN {None, Bool(TRUE), Bool(FALSE)}
  ELSE {None, Str(""), Str("x")}
ListInvocations ==
  UNION {{Invocation(t, f) :
            f \in {g \in [filters(t) -> {None, Bool(TRUE), Bool(FALSE), Str(""), Str("x")}] :
                     \A k \in filters(t) : g[k] \in FilterValues(k)}} :
         t \in list_tools}

\* the optional fields of an update, and patches of them: each field absent
\* or supplied, with falsy values among the supplied ones
patch_fields(tool) ==
  IF tool = "update_station"
  THEN {"name", "intent", "slug", "context", "output", "is_active", "archived", "action"}
  ELSE {"name", "intent", "slug", "context", "output", "action"}
PatchValues(k) ==
  CASE k = "name" -> {None, Str(""), Str("n2")}
    [] k \in {"intent", "slug"} -> {None, Str("")}
    [] k \in {"context", "output"} -> {None, Dict(<<>>)}
    [] k = "is_active" -> {None, Bool(FALSE)}
    [] k = "archived" -> {None, Bool(TRUE)}
    [] k = "action" -> {None, Dict(<<>>)}
PatchInvocations ==
  UNION {{Invocation(t, f) :
            f \in {g \in [patch_fields(t) ->
                           {None, Str(""), Str("n2"), Dict(<<>>), Bool(FALSE), Bool(TRUE)}] :
                     \A k \in patch_fields(t) : g[k] \in PatchValues(k)}} :
         t \in {"update_station", "update_workflow"}}

GoodStationAction == Dict([type |-> Str("process"), actor |-> Str("agent"),
                           prompt |-> Str("x")])

\* creations of a station with a valid action: slug, context and output
\* absent, empty or non-empty, version and is_active defaulted or supplied
CreateValues(k) ==
  CASE k = "slug" -> {None, Str(""), Str("s")}
    [] k \in {"context", "output"} -> {None, Dict(<<>>), Dict([k1 |-> Str("v")])}
    [] k = "version" -> {Str("1.0"), Str("2.0")}
    [] k = "is_active" -> {Bool(TRUE), Bool(FALSE)}
CreateInvocations ==
  {Invocation("create_station",
              [action |-> GoodStationAction, slug |-> sl, context |-> cx, output |-> ou]
              @@ rest) :
     sl \in CreateValues("slug"), cx \in CreateValues("context"),
     ou \in CreateValues("output"),
     rest \in {<<>>, [version |-> Str("2.0")], [is_active |-> Bool(FALSE)]}}

\* every invocation enumerated: the mutation tools over their actions, the
\* read tools over their filters
AllInvocations ==
  ListInvocations \cup PatchInvocations \cup CreateInvocations \cup
  {Invocation("get_station", <<>>), Invocation("delete_station", <<>>)}
  \cup {Invocation("create_station", [action |-> a]) : a \in StationActions}
  \cup {Invocation("update_station", [action |-> a]) : a \in StationActions \cup {None}}
  \cup {Invocation("update_station", [action |-> a] @@ OtherFields) :
          a \in StationActions \cup {None}}
  \cup {Invocation("create_workflow", [action |-> a]) : a \in WorkflowActions}
  \cup {Invocation("update_workflow", [action |-> a]) : a \in WorkflowActions \cup {None}}
  \cup {Invocation("update_workflow", [action |-> a] @@ OtherFields) :
          a \in {Dict([config |-> c]) : c \in Configs} \cup {None}}

\* the invocations that run concurrently: one passing and one failing call of
\* each mutation tool, and a tool without validation
GoodWorkflowAction ==
  Dict([config |-> Dict([trigger |-> Str("manual"), type |-> Str("linear")]),
        stations |-> List(<<GoodEntry>>)])
Invocations ==
  {Invocation("get_station", <<>>),
   Invocation("create_station", [action |-> GoodStationAction]),
   Invocation("create_station", [action |-> Dict([type |-> Str("bogus"),
                                  actor |-> Str("agent"), prompt |-> Str("x")])]),
   Invocation("update_station", [is_active |-> Bool(FALSE)]),
   Invocation("update_station", [action |-> Dict([actor |-> Str("Agent")])]),
   Invocation("create_workflow", [action |-> GoodWorkflowAction]),
   Invocation("create_workflow", [action |-> Dict([config |-> Dict(<<>>),
                                   stations |-> List(<<>>)])]),
   Invocation("update_workflow", [name |-> Str("n2")]),
   Invocation("update_workflow", [action |-> Dict([stations |-> List(<<Str("a")>>)])])}

\* ------------------------------------------------------------ specifications
\* the server: the hosting runtime runs up to MaxCalls tool invocations
\* concurrently, each suspended while it awaits its response
Next ==
  \/ \E i \in Slots, inv \in Invocations : Invoke(i, inv)
  \/ \E i \in Slots, o \in Outcomes : Respond(i, o)
  \/ \E i \in Slots : Return(i)

Spec == Init /\ [][Next]_vars

\* a caller that makes one call at a time, over every enumerated invocation
SeqNext ==
  \/ calls[1] = Idle /\ \E inv \in AllInvocations : Invoke(1, inv)
  \/ \E o \in Outcomes : Respond(1, o)
  \/ Return(1)

SeqSpec == Init /\ [][SeqNext]_vars

\* the object over its life: concurrent requests, close() calls and changes
\* of the credential attributes, in any interleaving
LifeInvocations ==
  {Invocation("get_station", <<>>),
   Invocation("create_station", [action |-> Dict([type |-> Str("bogus"),
                                  actor |-> Str("agent"), prompt |-> Str("x")])])}
LifeNext ==
  \/ \E i \in Slots, inv \in LifeInvocations : Invoke(i, inv)
  \/ \E i \in Slots, o \in Outcomes : Respond(i, o)
  \/ \E i \in Slots : Return(i)
  \/ \E i \in Slots : Close(i)
  \/ \E url \in {"", "https://p.supabase.co"}, key \in {"", "secret"} :
       SetCredentials(url, key)

LifeSpec == Init /\ [][LifeNext]_vars

\* ------------------------------------------------------------ properties
Active(i) == calls[i].pc # "idle"
IsValidationError(r) == r.exc = "ValueError" /\ r.site = "tool"
IsConfigurationError(r) == r.exc = "ValueError" /\ r.site = "client"
Names(r, word) == word \in Range(r.msg)

\* the outcome of the local checks of a tool on its arguments
local_validation(tool, args) ==
  CASE tool = "create_station"  -> create_station_validate(args["action"])
    [] tool = "update_station"  -> update_station_validate(args["action"])
    [] tool = "create_workflow" -> create_workflow_validate(args["action"])
    [] tool = "update_workflow" -> update_workflow_validate(args["action"])
    [] OTHER -> NoExc

\* the invocation in slot i was refused by the tool body: it is over, the caller
\* gets a Validation error, client.request was never called and nothing was sent
Refused(i) ==
  /\ calls[i].pc = "done"
  /\ IsValidationError(calls[i].result)
  /\ calls[i].requests = 0
  /\ calls[i].sent = 0
  /\ calls[i].wire = NoCall

\* the invocation in slot i passed the local checks: client.request was called
\* once and the caller gets no Validation error
Passed(i) ==
  /\ calls[i].requests = 1
  /\ ~IsValidationError(calls[i].result)

\* C1: an invocation of create_station, update_station, create_workflow or
\* update_workflow whose arguments fail the local checks ends with the
\* Validation error without client.request being reached: zero network requests.
C1_ValidationBeforeNetwork ==
  \A i \in Slots :
    (/\ Active(i)
     /\ calls[i].tool \in {"create_station", "update_station", "create_workflow",
                           "update_workflow"})
    => /\ local_validation(calls[i].tool, calls[i].args) # NoExc
          => Refused(i) /\ calls[i].result = local_validation(calls[i].tool, calls[i].args)
       /\ IsValidationError(calls[i].result) => Refused(i)

\* scenario B: create_station with action.type "bogus" was refused
C1_Witness ==
  \E i \in Slots :
    /\ Active(i)
    /\ calls[i].tool = "create_station"
    /\ calls[i].args["action"]
         = Dict([type |-> Str("bogus"), actor |-> Str("agent"), prompt |-> Str("x")])
    /\ Refused(i)

\* C2: a create_station call whose action dict lacks any of type, actor, prompt
\* is refused with a Validation error whose message names every missing key,
\* and nothing is sent.
C2_MissingFieldsAllNamed ==
  \A i \in Slots :
    (/\ Active(i)
     /\ calls[i].tool = "create_station"
     /\ IsDict(calls[i].args["action"])
     /\ {"type", "actor", "prompt"} \ DOMAIN calls[i].args["action"].d # {})
    => /\ Refused(i)
       /\ \A k \in {"type", "actor", "prompt"} \ DOMAIN calls[i].args["action"].d :
            Names(calls[i].result, k)

\* an action with only a prompt: the message names both type and actor
C2_Witness ==
  \E i \in Slots :
    /\ Active(i)
    /\ calls[i].tool = "create_station"
    /\ calls[i].args["action"] = Dict([prompt |-> Str("x")])
    /\ Refused(i)
    /\ Names(calls[i].result, "type")
    /\ Names(calls[i].result, "actor")

\* C3: a create_station call whose action carries type, actor and prompt passes
\* the local checks exactly when type is one of the strings gather, process,
\* execute and actor one of agent, human; any other value is refused.
C3_EnumerationsExact ==
  \A i \in Slots :
    (/\ Active(i)
     /\ calls[i].tool = "create_station"
     /\ IsDict(calls[i].args["action"])
     /\ {"type", "actor", "prompt"} \subseteq DOMAIN calls[i].args["action"].d)
    => LET a == calls[i].args["action"].d
           ok == /\ a["type"] \in {Str("gather"), Str("process"), Str("execute")}
                 /\ a["actor"] \in {Str("agent"), Str("human")}
       IN IF ok THEN Passed(i) ELSE Refused(i)

\* the boundary: "Gather" is refused while "human" as actor was acceptable
C3_Witness ==
  \E i \in Slots :
    /\ Active(i)
    /\ calls[i].tool = "create_station"
    /\ calls[i].args["action"]
         = Dict([type |-> Str("Gather"), actor |-> Str("human"), prompt |-> Str("x")])
    /\ Refused(i)

\* C4: a create_workflow call is refused unless action contains config and
\* stations, config is a dict with trigger and type, trigger is one of manual,
\* schedule, event and type one of linear, parallel, conditional, hybrid.
C4_WorkflowConfigRequired ==
  \A i \in Slots :
    (/\ Active(i)
     /\ calls[i].tool = "create_workflow")
    => LET a == calls[i].args["action"]
           ok == /\ IsDict(a)
                 /\ {"config", "stations"} \subseteq DOMAIN a.d
                 /\ IsDict(a.d["config"])
                 /\ {"trigger", "type"} \subseteq DOMAIN a.d["config"].d
                 /\ a.d["config"].d["trigger"]
                      \in {Str("manual"), Str("schedule"), Str("event")}
                 /\ a.d["config"].d["type"]
                      \in {Str("linear"), Str("parallel"), Str("conditional"),
                           Str("hybrid")}
       IN ~ok => Refused(i)

\* a config whose type is outside the enumeration, everything else in order
C4_Witness ==
  \E i \in Slots :
    /\ Active(i)
    /\ calls[i].tool = "create_workflow"
    /\ calls[i].args["action"]
         = Dict([config |-> Dict([trigger |-> Str("manual"), type |-> Str("bogus")]),
                 stations |-> List(<<GoodEntry>>)])
    /\ Refused(i)

\* the conditions on action.config that create_workflow documents
ConfigInOrder(a) ==
  /\ IsDict(a)
  /\ "config" \in DOMAIN a.d
  /\ IsDict(a.d["config"])
  /\ {"trigger", "type"} \subseteq DOMAIN a.d["config"].d
  /\ a.d["config"].d["trigger"] \in {Str("manual"), Str("schedule"), Str("event")}
  /\ a.d["config"].d["type"]
       \in {Str("linear"), Str("parallel"), Str("conditional"), Str("hybrid")}

\* a stations value that is not a list, or is an empty one
NoStations(st) == ~IsList(st) \/ st.l = <<>>

\* an entry that is not a mapping or lacks one of name, id, condition
Offends(entry) ==
  ~IsDict(entry) \/ ~({"name", "id", "condition"} \subseteq DOMAIN entry.d)

\* the zero-based index of the first offending entry of a list
LowestOffender(q) ==
  CHOOSE j \in 0..(Len(q) - 1) :
    Offends(q[j + 1]) /\ \A k \in 0..(j - 1) : ~Offends(q[k + 1])

\* the message is about entry j: "action.stations[j] ..."
ReportsIndex(r, j) ==
  /\ Len(r.msg) >= 2
  /\ r.msg[1] = "action.stations["
  /\ r.msg[2] = IntStr(j)

\* C5 as stated: every create_workflow call whose action.stations is an empty
\* list or not a list is refused with a message saying "non-empty".
C5_Original ==
  \A i \in Slots :
    (/\ Active(i)
     /\ calls[i].tool = "create_workflow"
     /\ IsDict(calls[i].args["action"])
     /\ "stations" \in DOMAIN calls[i].args["action"].d
     /\ NoStations(calls[i].args["action"].d["stations"]))
    => Refused(i) /\ Names(calls[i].result, "non-empty")

\* C5 (amended): every create_workflow call whose action.stations is an empty
\* list or not a list is refused and nothing is sent; the message says
\* "non-empty" when the checks made before it pass, that is when action also
\* holds a config that is in order.
C5_EmptyStationsRefused ==
  \A i \in Slots :
    (/\ Active(i)
     /\ calls[i].tool = "create_workflow"
     /\ IsDict(calls[i].args["action"])
     /\ "stations" \in DOMAIN calls[i].args["action"].d
     /\ NoStations(calls[i].args["action"].d["stations"]))
    => /\ Refused(i)
       /\ ConfigInOrder(calls[i].args["action"])
            => Names(calls[i].result, "non-empty")

\* an empty stations list under a config that is in order
C5_Witness ==
  \E i \in Slots :
    /\ Active(i)
    /\ calls[i].tool = "create_workflow"
    /\ calls[i].args["action"]
         = Dict([config |-> Dict([trigger |-> Str("manual"), type |-> Str("linear")]),
                 stations |-> List(<<>>)])
    /\ Refused(i)
    /\ Names(calls[i].result, "non-empty")

\* C6 as stated: every create_workflow call with an offending entry in
\* action.stations is refused with a message reporting the zero-based index of
\* the lowest offending entry.
C6_Original ==
  \A i \in Slots :
    (/\ Active(i)
     /\ calls[i].tool = "create_workflow"
     /\ IsDict(calls[i].args["action"])
     /\ "stations" \in DOMAIN calls[i].args["action"].d
     /\ IsList(calls[i].args["action"].d["stations"])
     /\ \E e \in Range(calls[i].args["action"].d["stations"].l) : Offends(e))
    => /\ Refused(i)
       /\ ReportsIndex(calls[i].result,
                       LowestOffender(calls[i].args["action"].d["stations"].l))

\* C6 (amended): every create_workflow call with an offending entry in
\* action.stations is refused; the message reports the zero-based index of the
\* lowest offending entry when the checks made before the entries pass, that is
\* when action also holds a config that is in order.
C6_OffendingIndexReported ==
  \A i \in Slots :
    (/\ Active(i)
     /\ calls[i].tool = "create_workflow"
     /\ IsDict(calls[i].args["action"])
     /\ "stations" \in DOMAIN calls[i].args["action"].d
     /\ IsList(calls[i].args["action"].d["stations"])
     /\ \E e \in Range(calls[i].args["action"].d["stations"].l) : Offends(e))
    => /\ Refused(i)
       /\ ConfigInOrder(calls[i].args["action"])
            => ReportsIndex(calls[i].result,
                            LowestOffender(calls[i].args["action"].d["stations"].l))

\* three entries, the second and the third offending: index 1 is reported
C6_Witness ==
  \E i \in Slots :
    /\ Active(i)
    /\ calls[i].tool = "create_workflow"
    /\ ConfigInOrder(calls[i].args["action"])
    /\ "stations" \in DOMAIN calls[i].args["action"].d
    /\ calls[i].args["action"].d["stations"]
         = List(<<GoodEntry, Dict([name |-> Str("a"), id |-> Num(1)]), Str("a")>>)
    /\ Refused(i)
    /\ ReportsIndex(calls[i].result, 1)

\* an action that supplies an enumerated sub-field with a value outside its
\* enumeration
BadStationEnum(a) ==
  /\ IsDict(a)
  /\ \/ "type" \in DOMAIN a.d
        /\ a.d["type"] \notin {Str("gather"), Str("process"), Str("execute")}
     \/ "actor" \in DOMAIN a.d
        /\ a.d["actor"] \notin {Str("agent"), Str("human")}

BadWorkflowEnum(a) ==
  /\ IsDict(a)
  /\ "config" \in DOMAIN a.d
  /\ IsDict(a.d["config"])
  /\ \/ "trigger" \in DOMAIN a.d["config"].d
        /\ a.d["config"].d["trigger"]
             \notin {Str("manual"), Str("schedule"), Str("event")}
     \/ "type" \in DOMAIN a.d["config"].d
        /\ a.d["config"].d["type"]
             \notin {Str("linear"), Str("parallel"), Str("conditional"), Str("hybrid")}

\* C7: an update_station or update_workflow call without an action is never
\* refused and reaches client.request (and the network, the credentials being
\* set); a call whose action supplies type / actor (config.trigger /
\* config.type) outside its enumeration is refused whatever else it supplies.
C7_PartialUpdateValidation ==
  \A i \in Slots :
    (Active(i) /\ calls[i].tool \in {"update_station", "update_workflow"})
    => /\ calls[i].args["action"] = None
            => /\ Passed(i)
               /\ (supabase_url # "" /\ service_role_key # "") => calls[i].sent = 1
       /\ (calls[i].tool = "update_station" /\ BadStationEnum(calls[i].args["action"]))
            => Refused(i)
       /\ (calls[i].tool = "update_workflow" /\ BadWorkflowEnum(calls[i].args["action"]))
            => Refused(i)

\* a well-formed type next to an actor outside the enumeration, with other
\* fields supplied too
C7_Witness ==
  \E i \in Slots :
    /\ Active(i)
    /\ calls[i].tool = "update_station"
    /\ calls[i].args["action"] = Dict([type |-> Str("process"), actor |-> Str("Agent")])
    /\ calls[i].args["name"] = Str("n2")
    /\ Refused(i)

\* C8 as stated, for the stations field: an update_workflow call whose patch
\* holds action.stations (and no config, or a config update_workflow accepts) is
\* refused exactly when create_workflow's checks refuse that stations value.
C8_StationsCheckedAsCreate ==
  \A i \in Slots :
    (/\ Active(i)
     /\ calls[i].tool = "update_workflow"
     /\ IsDict(calls[i].args["action"])
     /\ "stations" \in DOMAIN calls[i].args["action"].d
     /\ "config" \in DOMAIN calls[i].args["action"].d
          => update_config_validate(calls[i].args["action"].d["config"]) = NoExc)
    => (Refused(i)
        <=> create_stations_validate(calls[i].args["action"].d["stations"]) # NoExc)

\* C9: while either credential is empty, every call of client.request ends with
\* a Configuration error naming JIG_RUNNER_SUPABASE_URL and
\* JIG_RUNNER_SERVICE_ROLE_KEY, no HTTP client is constructed and no request
\* is ever sent.
C9_MissingCredentials ==
  (supabase_url = "" \/ service_role_key = "")
  => /\ _client = NoClient
     /\ clients = <<>>
     /\ \A i \in Slots :
          Active(i)
          => /\ calls[i].sent = 0
             /\ calls[i].wire = NoCall
             /\ calls[i].requests = 1
                  => /\ calls[i].pc = "done"
                     /\ IsConfigurationError(calls[i].result)
                     /\ Names(calls[i].result, "JIG_RUNNER_SUPABASE_URL")
                     /\ Names(calls[i].result, "JIG_RUNNER_SERVICE_ROLE_KEY")

\* only the key is missing, and a call that passed its local checks got the
\* Configuration error
C9_Witness ==
  /\ supabase_url # ""
  /\ service_role_key = ""
  /\ \E i \in Slots :
       /\ Active(i)
       /\ calls[i].tool = "create_station"
       /\ calls[i].requests = 1
       /\ IsConfigurationError(calls[i].result)

\* C10: an invocation that passes the local checks and the credential check
\* has exactly one request sent for it, while it waits and after it ended,
\* whatever the outcome; no invocation ever has more than one.
C10_SingleAttempt ==
  \A i \in Slots :
    Active(i)
    => /\ calls[i].sent <= 1
       /\ (/\ local_validation(calls[i].tool, calls[i].args) = NoExc
           /\ ~IsConfigurationError(calls[i].result))
          => /\ calls[i].requests = 1
             /\ calls[i].sent = 1
             /\ calls[i].wire # NoCall

\* two invocations over, one with a non-2xx response and one with a timeout,
\* one request sent for each
C10_Witness ==
  \E i, j \in Slots :
    /\ Active(i) /\ Active(j)
    /\ calls[i].pc = "done" /\ calls[i].result.exc = "HTTPStatusError"
    /\ calls[j].pc = "done" /\ calls[j].result.exc = "ReadTimeout"
    /\ calls[i].sent = 1 /\ calls[j].sent = 1

\* the failures of an invocation that C11 is about
IsRemoteError(r) == r.exc = "HTTPStatusError"
IsTransportError(r) == r.exc \in {"ReadTimeout", "ConnectError"}
Failed(r) == IsValidationError(r) \/ IsRemoteError(r) \/ IsTransportError(r)

\* the HTTP client that the credentials of the object determine
ClientOf(url, key) ==
  [base_url |-> url, content_type |-> "application/json",
   authorization |-> "Bearer " \o key, timeout |-> 30, closed |-> FALSE]

\* C11 as stated: when an invocation has failed, the HTTP client handle is what
\* it was before the invocation: the invocation constructed no client.
C11_Original ==
  \A i \in Slots :
    (Active(i) /\ calls[i].pc = "done" /\ Failed(calls[i].result))
    => ~calls[i].created

\* what an invocation does is decided by its arguments and the credentials,
\* whatever other invocations did before it or do beside it: refused by its
\* local checks, or refused for the credentials, or its request (the tool
\* body's method, url, params and body) is out on the one client built from
\* the credentials
HistoryFree ==
  \A i \in Slots :
    Active(i)
    => LET c == calls[i]
           b == tool_body(c.tool, c.args)
       IN IF local_validation(c.tool, c.args) # NoExc
          THEN c.result = local_validation(c.tool, c.args) /\ c.wire = NoCall
          ELSE IF supabase_url = "" \/ service_role_key = ""
          THEN IsConfigurationError(c.result) /\ c.wire = NoCall
          ELSE /\ c.wire = [client |-> 1, method |-> b.call.method, url |-> b.call.url,
                            params |-> b.call.params, json |-> b.call.json]
               /\ clients = <<ClientOf(api_url, service_role_key)>>
               /\ _client = 1

\* C11 (amended): the step in which an invocation fails (Validation, Remote or
\* Transport error) changes neither the credentials, the base URL, the client
\* handle, the constructed clients nor any other invocation; over its whole
\* run a failed invocation may leave one change, the HTTP client it
\* constructed as the first to pass the credential check, and every other
\* invocation does what its arguments and the credentials alone decide.
C11_FailureFrame ==
  /\ []HistoryFree
  /\ [][\A i \in Slots :
          (calls[i].pc # "done" /\ calls'[i].pc = "done" /\ Failed(calls'[i].result))
          => /\ UNCHANGED <<api_url, supabase_url, service_role_key, _client, clients>>
             /\ \A j \in Slots \ {i} : calls'[j] = calls[j]]_vars

\* an invocation that constructed the client has failed with a non-2xx
\* response while another one waits for its response on that client
C11_Witness ==
  \E i, j \in Slots :
    /\ Active(i) /\ Active(j)
    /\ calls[i].pc = "done" /\ IsRemoteError(calls[i].result) /\ calls[i].created
    /\ calls[j].pc = "awaiting" /\ calls[j].wire.client = _client

\* C12: a Configuration error raised by the transport client and a Validation
\* error raised by a tool body reach the caller as error objects of different
\* kinds (exception classes), so that they can be told apart without reading
\* the message.
C12_KindsDistinguishable ==
  \A i, j \in Slots :
    (/\ Active(i) /\ calls[i].pc = "done"
     /\ Active(j) /\ calls[j].pc = "done"
     /\ calls[i].result.exc # "none" /\ calls[j].result.exc # "none"
     /\ calls[i].result.site = "client" /\ calls[j].result.site = "tool")
    => calls[i].result.exc # calls[j].result.exc

\* a filter the caller supplied: neither null nor empty (False is a value)
Supplied(v) == v # None /\ v # Str("")

\* C13: the query parameters sent by a list_*/discover_* tool contain an
\* optional filter key exactly when the caller supplied that filter (a value
\* that is neither null nor empty), carry the caller's value under it, and
\* never carry a null or empty value; is_active = false is sent.
C13_FiltersAsSupplied ==
  \A i \in Slots :
    (Active(i) /\ calls[i].tool \in list_tools /\ calls[i].wire # NoCall)
    => LET a == calls[i].args
           q == calls[i].wire.params.d
       IN /\ \A k \in filters(calls[i].tool) :
               /\ k \in DOMAIN q <=> Supplied(a[k])
               /\ k \in DOMAIN q => q[k] = a[k]
          /\ \A k \in DOMAIN q : q[k] # None /\ q[k] # Str("")
          /\ ("is_active" \in DOMAIN a /\ a["is_active"] = Bool(FALSE))
             => ("is_active" \in DOMAIN q /\ q["is_active"] = Bool(FALSE))

\* list_connections went out with is_active = false, an empty search and a type
C13_Witness ==
  /\ Active(1) /\ calls[1].tool = "list_connections" /\ calls[1].wire # NoCall
  /\ calls[1].args["is_active"] = Bool(FALSE)
  /\ calls[1].args["search"] = Str("")
  /\ calls[1].args["type"] = Str("x")
  /\ DOMAIN calls[1].wire.params.d = {"limit", "offset", "type", "is_active"}

\* C14: the JSON body of the PUT of update_station and update_workflow has as
\* its keys exactly the optional fields the caller supplied (not None), each
\* with the caller's value, falsy values included.
C14_SparsePatch ==
  \A i \in Slots :
    (/\ Active(i) /\ calls[i].tool \in {"update_station", "update_workflow"}
     /\ calls[i].wire # NoCall)
    => LET a == calls[i].args
           body == calls[i].wire.json
       IN /\ calls[i].wire.method = "PUT"
          /\ IsDict(body)
          /\ DOMAIN body.d = {k \in patch_fields(calls[i].tool) : a[k] # None}
          /\ \A k \in DOMAIN body.d : body.d[k] = a[k]

\* update_station sent a patch of falsy values only: is_active = false, an
\* empty slug and an empty context mapping
C14_Witness ==
  /\ Active(1) /\ calls[1].tool = "update_station" /\ calls[1].wire # NoCall
  /\ calls[1].args["is_active"] = Bool(FALSE)
  /\ calls[1].args["slug"] = Str("")
  /\ calls[1].args["context"] = Dict(<<>>)
  /\ calls[1].args["name"] = None
  /\ DOMAIN calls[1].wire.json.d = {"is_active", "slug", "context"}

\* the part of C15 that holds of every POST of create_station: one POST to
\* /api/stations whose body carries version, name, intent, action and
\* is_active as passed (action unmodified), the defaults being "1.0" and true
CreateBodyCore(i) ==
  LET a == calls[i].args
      body == calls[i].wire.json
  IN /\ calls[i].wire.method = "POST" /\ calls[i].wire.url = "/api/stations"
     /\ calls[i].requests = 1
     /\ IsDict(body)
     /\ {"version", "name", "intent", "action", "is_active"} \subseteq DOMAIN body.d
     /\ DOMAIN body.d \subseteq
          {"version", "name", "intent", "action", "is_active", "slug", "context", "output"}
     /\ \A k \in DOMAIN body.d : body.d[k] = a[k]
     /\ defaults("create_station")["version"] = Str("1.0")
     /\ defaults("create_station")["is_active"] = Bool(TRUE)

\* C15 as stated: ... and the body contains each of slug, context, output
\* exactly when the caller supplied it (passed a value other than None).
C15_Original ==
  \A i \in Slots :
    (Active(i) /\ calls[i].tool = "create_station" /\ calls[i].wire # NoCall)
    => /\ CreateBodyCore(i)
       /\ \A k \in {"slug", "context", "output"} :
            k \in DOMAIN calls[i].wire.json.d <=> calls[i].args[k] # None

\* C15 (amended): for every create_station call that passes validation the
\* body of the single POST to /api/stations contains version, name, intent,
\* action (unmodified) and is_active, and contains each of slug, context,
\* output exactly when the caller supplied a non-empty value for it.
C15_CreateBody ==
  \A i \in Slots :
    (Active(i) /\ calls[i].tool = "create_station" /\ calls[i].wire # NoCall)
    => /\ CreateBodyCore(i)
       /\ \A k \in {"slug", "context", "output"} :
            k \in DOMAIN calls[i].wire.json.d <=> Truthy(calls[i].args[k])

\* a station was posted with is_active = false, an empty slug, an empty
\* context and a non-empty output: the body has output and neither slug nor
\* context
C15_Witness ==
  /\ Active(1) /\ calls[1].tool = "create_station" /\ calls[1].wire # NoCall
  /\ calls[1].args["is_active"] = Bool(FALSE)
  /\ calls[1].args["slug"] = Str("")
  /\ calls[1].args["context"] = Dict(<<>>)
  /\ calls[1].args["output"] = Dict([k1 |-> Str("v")])
  /\ DOMAIN calls[1].wire.json.d =
       {"version", "name", "intent", "action", "is_active", "output"}

\* C17: in every mutation tool the local checks come before the credential
\* check: an invocation with invalid arguments ends with the Validation error
\* of its local checks, without a request and without a client, also when the
\* credentials are missing; a Configuration error is raised only for an
\* invocation whose arguments pass the local checks.
C17_ValidationBeforeCredentials ==
  \A i \in Slots :
    (/\ Active(i)
     /\ calls[i].tool \in {"create_station", "update_station", "delete_station",
                           "create_workflow", "update_workflow"})
    => LET v == local_validation(calls[i].tool, calls[i].args)
       IN /\ v # NoExc
             => /\ Refused(i)
                /\ calls[i].result = v
                /\ (supabase_url = "" \/ service_role_key = "") => _client = NoClient
          /\ IsConfigurationError(calls[i].result) => v = NoExc

\* with the service key missing, a create_workflow with invalid arguments was
\* refused with the Validation error
C17_Witness ==
  /\ service_role_key = "" /\ _client = NoClient
  /\ Active(1) /\ calls[1].tool = "create_workflow"
  /\ local_validation("create_workflow", calls[1].args) # NoExc
  /\ Refused(1)

\* a step in which slot i issues request() (a tool body reached client.request)
RequestStep(i) == calls[i] = Idle /\ calls'[i].pc # "idle" /\ calls'[i].requests = 1
\* a step in which slot i calls close()
CloseStep(i) == calls[i] = Idle /\ calls'[i].pc # "idle" /\ calls'[i].tool = "close"

\* at most one HTTP client exists, the handle is unset or refers to it, and
\* every request that went out went out on it
OneClient ==
  /\ Len(clients) <= 1
  /\ _client = Len(clients)
  /\ \A i \in Slots :
       (Active(i) /\ calls[i].wire # NoCall) => calls[i].wire.client = 1
  /\ Cardinality({i \in Slots : Active(i) /\ calls[i].created}) <= 1

\* C16: over any interleaving of request() and close() calls at most one HTTP
\* client is ever created: a client is created only by a request that finds
\* the handle unset and both credentials present, and every request that is
\* sent, concurrently in flight or later, is sent on that one instance.
C16_OneClientEver ==
  /\ []OneClient
  /\ [][clients' # clients =>
          \/ /\ clients = <<>> /\ _client = NoClient /\ Len(clients') = 1
             /\ supabase_url # "" /\ service_role_key # ""
             /\ \E i \in Slots : /\ RequestStep(i) /\ calls'[i].created
                                 /\ calls'[i].wire.client = 1 /\ _client' = 1
          \/ /\ \E i \in Slots : CloseStep(i)
             /\ Len(clients') = Len(clients) /\ _client' = _client]_vars

\* the client was closed while a request was in flight on it, and a request
\* issued after the close was given the same, closed instance
C16_Witness ==
  \E i, j \in Slots :
    /\ Len(clients) = 1 /\ clients[1].closed /\ _client = 1
    /\ Active(i) /\ calls[i].pc = "awaiting" /\ calls[i].wire.client = 1
    /\ Active(j) /\ calls[j].requests = 1 /\ calls[j].result.exc = "RuntimeError"

\* C18: the credential check is lazy and repeated until it succeeds. No
\* Configuration error arises outside a request (construction with empty
\* credentials raises nothing). A request that finds the handle unset checks
\* the credentials: with one of them empty it fails with the Configuration
\* error and leaves the handle unset, with both present it constructs the
\* HTTP client from them and proceeds. A request that finds the handle set
\* never fails with a Configuration error, whatever the credentials are now.
C18_LazyCredentialCheck ==
  /\ [](\A i \in Slots :
          (Active(i) /\ IsConfigurationError(calls[i].result)) => calls[i].requests = 1)
  /\ [][\A i \in Slots :
          RequestStep(i) =>
            IF _client = NoClient
            THEN IF supabase_url = "" \/ service_role_key = ""
                 THEN /\ IsConfigurationError(calls'[i].result)
                      /\ calls'[i].pc = "done" /\ calls'[i].sent = 0
                      /\ _client' = NoClient /\ clients' = clients
                 ELSE /\ calls'[i].pc = "awaiting" /\ calls'[i].created
                      /\ _client' # NoClient
                      /\ clients'[_client'] = ClientOf(api_url, service_role_key)
            ELSE /\ ~IsConfigurationError(calls'[i].result)
                 /\ _client' = _client /\ clients' = clients]_vars

\* a request failed with the Configuration error, the credentials were set,
\* the next request constructed the client and went out, and the credentials
\* were emptied again while the client stays
C18_Witness ==
  \E i, j \in Slots :
    /\ Active(i) /\ IsConfigurationError(calls[i].result)
    /\ Active(j) /\ calls[j].pc = "awaiting" /\ calls[j].created
    /\ _client # NoClient
    /\ service_role_key = ""

\* the parts of C19 about the handle and about requests after close(): close()
\* never raises, never changes the handle and never creates a client; a
\* request that finds the handle on a closed client is given that same
\* instance, creates none and sends nothing; and no request in flight was
\* put on a client that was closed when it was issued
ClosedStaysClosed ==
  /\ \A i \in Slots :
       CloseStep(i)
       => /\ calls'[i].result.exc = "none" /\ calls'[i].requests = 0
          /\ _client' = _client /\ Len(clients') = Len(clients)
          /\ _client # NoClient => clients'[_client].closed
  /\ \A i \in Slots :
       (RequestStep(i) /\ _client # NoClient /\ clients[_client].closed)
       => /\ _client' = _client /\ clients' = clients
          /\ calls'[i].pc = "done" /\ calls'[i].sent = 0 /\ calls'[i].wire = NoCall
          /\ calls'[i].result.exc = "RuntimeError"
  /\ \A i \in Slots :
       (RequestStep(i) /\ calls'[i].sent = 1) => ~clients'[calls'[i].wire.client].closed

\* C19 as stated: close() before any successful request (no request of the
\* object has got its response yet) is a no-op: it changes neither the handle
\* nor any HTTP client; and the rest of the claim.
C19_Original ==
  [][/\ \A i \in Slots :
          (CloseStep(i) /\ ~succeeded) => (_client' = _client /\ clients' = clients)
     /\ ClosedStaysClosed]_vars

\* C19 (amended): close() does not reset the client handle: close() while the
\* handle is unset (before any request has passed the credential check) is a
\* no-op that neither creates an HTTP client nor checks credentials, and after
\* close() has closed the HTTP client every later request is given that same
\* closed instance, creates no fresh one and sends nothing.
C19_CloseKeepsHandle ==
  [][/\ \A i \in Slots :
          (CloseStep(i) /\ _client = NoClient)
          => (_client' = NoClient /\ clients' = clients /\ calls'[i].result.exc = "none")
     /\ ClosedStaysClosed]_vars

\* close() has returned with the client closed and the handle still on it,
\* and a request issued afterwards was refused by the closed client
C19_Witness ==
  \E i, j \in Slots :
    /\ Active(i) /\ calls[i].tool = "close"
    /\ _client # NoClient /\ clients[_client].closed
    /\ Active(j) /\ calls[j].requests = 1 /\ calls[j].sent = 0
    /\ calls[j].result.exc = "RuntimeError"

====
